---- MODULE Spec2Model ----
(***************************************************************************)
(* The training-and-packaging pipeline of src/train.py (main and the two   *)
(* inference closures preprocess / postprocess) as a state machine.        *)
(*                                                                         *)
(* Each run of main() is a process r \in Runs.  The local artifact store   *)
(* (the BentoML model store) is shared by all runs; everything else is     *)
(* per run.  Every call into the environment (file system, dataset,        *)
(* tensor library, model store) may raise; nothing in main catches, so a   *)
(* raise ends the run.                                                     *)
(*                                                                         *)
(* Optional values are sequences of length 0 (absent) or 1 (present).      *)
(***************************************************************************)
EXTENDS Integers, Sequences, FiniteSets, TLC

\* ------------------------------------------------------------------ bounds
NumRuns == 2      \* processes running main() against the same model store
MaxEpochs == 2    \* largest configured train.epochs
MaxLabels == 3    \* longest labels list handed to postprocess
MaxLogits == 3    \* longest logits vector handed to postprocess
MaxLogit == 2     \* logits are drawn from 0..MaxLogit
MaxDim == 3       \* image widths and heights are drawn from 1..MaxDim

Runs == 1..NumRuns

None == <<>>
Some(x) == <<x>>

VARIABLES
  pc,           \* [Runs -> step of main() about to execute]
  nargs,        \* [Runs -> len(sys.argv) - 1]
  params,       \* [Runs -> params.yaml: None (no file) or Some(mapping)]
  cfg,          \* [Runs -> the locals of lines 49-58: None or Some(record)]
  stdout,       \* [Runs -> sequence of messages printed]
  exitCode,     \* [Runs -> -1 while running, else the process exit status]
  traceback,    \* [Runs -> TRUE iff the run ended by an uncaught exception]
  failedAt,     \* [Runs -> None or Some(step that raised)]
  filesRead,    \* [Runs -> set of input files opened for reading]
  seedCalls,    \* [Runs -> number of set_seed calls made]
  seedState,    \* [Runs -> process-wide RNG seed: None or Some(seed)]
  unseededDraw, \* [Runs -> TRUE iff a pseudo-random draw happened unseeded]
  labels,       \* [Runs -> None or Some(label list of labels.json)]
  model,        \* [Runs -> None or Some(record describing the keras model)]
  epochIdx,     \* [Runs -> epochs completed by model.fit]
  history,      \* [Runs -> model.history.history, one record per epoch]
  phase,        \* [Runs -> state of the Trainer x Packager state machine]
  visited,      \* [Runs -> sequence of phases entered, in order]
  events,       \* [Runs -> sequence of the steps of main() completed]
  dirCreated,   \* [Runs -> TRUE iff model_folder was created by this run]
  registered,   \* [Runs -> 0 or the store version this run registered]
  store,        \* the model store: sequence of versions, last is "latest"
  artifactFile, \* [Runs -> None or Some(version exported to model_folder)]
  historyFile,  \* [Runs -> None or Some(content of history.npy)]
  pp_labels,    \* postprocess: the captured labels list
  pp_logits,    \* postprocess: the logits vector x[0]
  pp_result,    \* postprocess: None or Some(result or error)
  pr_size,      \* preprocess: the captured image_size
  pr_gray,      \* preprocess: the captured grayscale flag
  pr_image,     \* preprocess: the raw PIL image [mode, width, height]
  pr_out        \* preprocess: None or Some(shape of the returned array)

runVars == <<pc, nargs, params, cfg, stdout, exitCode, traceback, failedAt,
             filesRead, seedCalls, seedState, unseededDraw, labels, model,
             epochIdx, history, phase, visited, events, dirCreated,
             registered, store, artifactFile, historyFile>>
postVars == <<pp_labels, pp_logits, pp_result>>
preVars == <<pr_size, pr_gray, pr_image, pr_out>>
vars == <<runVars, postVars, preVars>>

\* ------------------------------------------------- the parameter file
\* params.yaml as yaml.safe_load returns it: a mapping of sections to
\* mappings of fields.  A missing section or field is a missing key.
\* lr is counted in thousandths.
BasePrepare == [image_size |-> <<2, 3>>, grayscale |-> FALSE]
BaseTrain == [seed |-> 7, lr |-> 1, epochs |-> 1, conv_size |-> 1,
              dense_size |-> 1, output_classes |-> 2]
DefaultParams == [prepare |-> BasePrepare, train |-> BaseTrain]

PrepareFields == {"image_size", "grayscale"}
TrainFields == {"seed", "lr", "epochs", "conv_size", "dense_size",
                "output_classes"}
PositiveFields == {"lr", "epochs", "conv_size", "dense_size",
                   "output_classes"}

Without(rec, k) == [f \in DOMAIN rec \ {k} |-> rec[f]]

ValidParams ==
  { [prepare |-> [BasePrepare EXCEPT !.grayscale = g],
     train |-> [BaseTrain EXCEPT !.epochs = e]] :
       g \in BOOLEAN, e \in 1..MaxEpochs }
NonPositiveParams ==
  { [DefaultParams EXCEPT !.train[f] = 0] : f \in PositiveFields }
    \cup { [DefaultParams EXCEPT !.train.epochs = -1] }
MissingSectionParams ==
  { Without(DefaultParams, s) : s \in {"prepare", "train"} }
MissingFieldParams ==
  { [DefaultParams EXCEPT !.prepare = Without(BasePrepare, f)] :
       f \in PrepareFields }
    \cup { [DefaultParams EXCEPT !.train = Without(BaseTrain, f)] :
       f \in TrainFields }
ParamFiles ==
  { None } \cup { Some(p) : p \in ValidParams \cup NonPositiveParams
                       \cup MissingSectionParams \cup MissingFieldParams }

\* Lines 43-58 succeed iff the file opens and every key they index exists.
ParamsComplete(p) ==
  /\ p # None
  /\ {"prepare", "train"} \subseteq DOMAIN p[1]
  /\ PrepareFields \subseteq DOMAIN p[1].prepare
  /\ TrainFields \subseteq DOMAIN p[1].train

\* A Configuration Record field that is present but not positive.
ParamsNonPositive(p) ==
  /\ ParamsComplete(p)
  /\ \E f \in PositiveFields : p[1].train[f] <= 0

\* image_shape = (*image_size, 1 if grayscale else 3)
ImageShape(image_size, grayscale) ==
  image_size \o << IF grayscale THEN 1 ELSE 3 >>

\* The locals main() holds after lines 49-58.
ReadConfig(p) ==
  [image_size |-> p.prepare.image_size,
   grayscale |-> p.prepare.grayscale,
   image_shape |-> ImageShape(p.prepare.image_size, p.prepare.grayscale),
   seed |-> p.train.seed,
   lr |-> p.train.lr,
   epochs |-> p.train.epochs,
   conv_size |-> p.train.conv_size,
   dense_size |-> p.train.dense_size,
   output_classes |-> p.train.output_classes]

\* ---------------------------------------------------- the steps of main
\* The statements of main() in program order; "fit" loops over the epochs.
StepOrder ==
  << "check_args", "load_params", "set_seed", "load_data", "build_model",
     "fit", "mkdir", "save_model", "export_model", "save_history",
     "print_saved", "done" >>

IndexOf(seq, x) == CHOOSE i \in 1..Len(seq) : seq[i] = x

StepAfter(order, step) == order[IndexOf(order, step) + 1]

\* Faulty orders: the model is never built; the seed is set after the
\* dataset is loaded; the history is written before the export.
NextPcSkipBuild(step) ==
  StepAfter(SelectSeq(StepOrder, LAMBDA s : s # "build_model"), step)

NextPcSeedLate(step) ==
  StepAfter(<< "check_args", "load_params", "load_data", "set_seed",
               "build_model", "fit", "mkdir", "save_model", "export_model",
               "save_history", "print_saved", "done" >>, step)

NextPcHistoryFirst(step) ==
  StepAfter(<< "check_args", "load_params", "set_seed", "load_data",
               "build_model", "fit", "mkdir", "save_model", "save_history",
               "export_model", "print_saved", "done" >>, step)

NextPc(step) == StepAfter(StepOrder, step)

\* Faulty check: extra arguments are let through.
ArgsOkAtLeast(n) == n + 1 >= 3

\* len(sys.argv) != 3, with sys.argv[0] the script
ArgsOk(n) == n + 1 = 3

UsageText == << "Arguments error. Usage:",
                "python3 train.py <prepared-dataset-folder> <model-folder>" >>
SavedText == "Model saved at <model_folder>"

DatasetLabels == << "star", "planet" >>

\* utils.seed.set_seed: seeds the process-wide pseudo-random sources.
SetSeedState(seed) == Some(seed)

\* get_model + compile: the network main() builds from the configuration.
GetModel(c, seeded) ==
  [input_shape |-> c.image_shape,
   conv_size |-> c.conv_size,
   dense_size |-> c.dense_size,
   output_width |-> c.output_classes,
   lr |-> c.lr,
   init_seed |-> seeded]

\* Faulty history: an epoch with a non-finite loss leaves no record.
RecordEpochDropNaN(h, e, loss) ==
  IF loss = "nan" THEN h ELSE Append(h, [epoch |-> e, loss |-> loss])

\* keras History.on_epoch_end: one record appended per finished epoch,
\* whatever the loss value; epoch is the 1-based number of the pass.
RecordEpoch(h, e, loss) == Append(h, [epoch |-> e, loss |-> loss])

LossValues == {"finite", "nan"}

\* bentoml.keras.save_model: a new version under the fixed name.
NewVersion(st, r) == [version |-> Len(st) + 1, owner |-> r]

\* Faulty resolution: the oldest version instead of the latest.
ResolveOldest(st) == st[1]

\* "celestial_bodies_classifier_model:latest" resolved against the store.
ResolveLatest(st) == st[Len(st)]

Terminal == {"exited", "raised", "done"}

\* An uncaught exception at `step`: the interpreter prints the trace and
\* the process ends with status 1.  Nothing else changes.
Raise(r, step) ==
  /\ pc' = [pc EXCEPT ![r] = "raised"]
  /\ exitCode' = [exitCode EXCEPT ![r] = 1]
  /\ traceback' = [traceback EXCEPT ![r] = TRUE]
  /\ failedAt' = [failedAt EXCEPT ![r] = Some(step)]
  /\ UNCHANGED events

\* `step` completed: control moves to the next statement.
Advance(r, step) ==
  /\ pc' = [pc EXCEPT ![r] = NextPc(step)]
  /\ events' = [events EXCEPT ![r] = Append(@, step)]
  /\ UNCHANGED <<exitCode, traceback, failedAt>>

Enter(r, ph) ==
  /\ phase' = [phase EXCEPT ![r] = ph]
  /\ visited' = [visited EXCEPT ![r] = Append(@, ph)]

\* lines 37-40
CheckArgs(r) ==
  /\ pc[r] = "check_args"
  /\ IF ArgsOk(nargs[r])
       THEN /\ Advance(r, "check_args")
            /\ UNCHANGED stdout
       ELSE /\ stdout' = [stdout EXCEPT ![r] = @ \o UsageText]
            /\ pc' = [pc EXCEPT ![r] = "exited"]
            /\ exitCode' = [exitCode EXCEPT ![r] = 1]
            /\ UNCHANGED <<traceback, failedAt, events>>
  /\ UNCHANGED <<nargs, params, cfg, filesRead, seedCalls, seedState,
                 unseededDraw, labels, model, epochIdx, history, phase,
                 visited, dirCreated, registered, store, artifactFile,
                 historyFile, postVars, preVars>>

\* lines 43-58
LoadParams(r) ==
  /\ pc[r] = "load_params"
  /\ filesRead' = [filesRead EXCEPT ![r] =
        IF params[r] # None THEN @ \cup {"params.yaml"} ELSE @]
  /\ IF ParamsComplete(params[r])
       THEN /\ cfg' = [cfg EXCEPT ![r] = Some(ReadConfig(params[r][1]))]
            /\ Enter(r, "Configured")
            /\ Advance(r, "load_params")
       ELSE /\ Raise(r, "load_params")
            /\ UNCHANGED <<cfg, phase, visited>>
  /\ UNCHANGED <<nargs, params, stdout, seedCalls, seedState, unseededDraw,
                 labels, model, epochIdx, history, dirCreated, registered,
                 store, artifactFile, historyFile, postVars, preVars>>

\* lines 60-61
SetSeed(r) ==
  /\ pc[r] = "set_seed"
  /\ seedCalls' = [seedCalls EXCEPT ![r] = @ + 1]
  /\ seedState' = [seedState EXCEPT ![r] = SetSeedState(cfg[r][1].seed)]
  /\ Advance(r, "set_seed")
  /\ UNCHANGED <<nargs, params, cfg, stdout, filesRead, unseededDraw,
                 labels, model, epochIdx, history, phase, visited,
                 dirCreated, registered, store, artifactFile, historyFile,
                 postVars, preVars>>

\* lines 63-69
LoadData(r) ==
  /\ pc[r] = "load_data"
  /\ \E ok \in BOOLEAN :
       IF ok
         THEN /\ filesRead' = [filesRead EXCEPT ![r] =
                    @ \cup {"train", "test", "labels.json"}]
              /\ labels' = [labels EXCEPT ![r] = Some(DatasetLabels)]
              /\ Advance(r, "load_data")
         ELSE /\ Raise(r, "load_data")
              /\ UNCHANGED <<filesRead, labels>>
  /\ UNCHANGED <<nargs, params, cfg, stdout, seedCalls, seedState,
                 unseededDraw, model, epochIdx, history, phase, visited,
                 dirCreated, registered, store, artifactFile, historyFile,
                 postVars, preVars>>

\* lines 71-78: the initial weights are drawn here
BuildModel(r) ==
  /\ pc[r] = "build_model"
  /\ \E ok \in BOOLEAN :
       IF ok
         THEN /\ model' = [model EXCEPT ![r] =
                    Some(GetModel(cfg[r][1], seedState[r]))]
              /\ unseededDraw' = [unseededDraw EXCEPT ![r] =
                    @ \/ seedState[r] = None]
              /\ stdout' = [stdout EXCEPT ![r] = Append(@, "model summary")]
              /\ Enter(r, "Built")
              /\ Advance(r, "build_model")
         ELSE /\ Raise(r, "build_model")
              /\ UNCHANGED <<model, unseededDraw, stdout, phase, visited>>
  /\ UNCHANGED <<nargs, params, cfg, filesRead, seedCalls, seedState,
                 labels, epochIdx, history, dirCreated, registered, store,
                 artifactFile, historyFile, postVars, preVars>>

\* lines 80-85: model.fit is entered
FitBegin(r) ==
  /\ pc[r] = "fit"
  /\ phase[r] # "Training"
  /\ Enter(r, "Training")
  /\ UNCHANGED <<pc, events, exitCode, traceback, failedAt>>
  /\ UNCHANGED <<nargs, params, cfg, stdout, filesRead, seedCalls,
                 seedState, unseededDraw, labels, model, epochIdx, history,
                 dirCreated, registered, store, artifactFile, historyFile,
                 postVars, preVars>>

\* lines 80-85: one pass of model.fit over ds_train, then over ds_test
TrainEpoch(r) ==
  /\ pc[r] = "fit"
  /\ phase[r] = "Training"
  /\ epochIdx[r] < cfg[r][1].epochs
  /\ \E ok \in BOOLEAN, loss \in LossValues :
       IF ok
         THEN /\ epochIdx' = [epochIdx EXCEPT ![r] = @ + 1]
              /\ history' = [history EXCEPT ![r] =
                    RecordEpoch(@, epochIdx[r] + 1, loss)]
              /\ unseededDraw' = [unseededDraw EXCEPT ![r] =
                    @ \/ seedState[r] = None]
              /\ UNCHANGED <<pc, events, exitCode, traceback, failedAt>>
         ELSE /\ Raise(r, "fit")
              /\ UNCHANGED <<epochIdx, history, unseededDraw>>
  /\ UNCHANGED <<nargs, params, cfg, stdout, filesRead, seedCalls,
                 seedState, labels, model, phase, visited, dirCreated,
                 registered, store, artifactFile, historyFile, postVars,
                 preVars>>

\* lines 80-85: model.fit returns once range(0, epochs) is exhausted
FitEnd(r) ==
  /\ pc[r] = "fit"
  /\ phase[r] = "Training"
  /\ epochIdx[r] >= cfg[r][1].epochs
  /\ Enter(r, "Trained")
  /\ Advance(r, "fit")
  /\ UNCHANGED <<nargs, params, cfg, stdout, filesRead, seedCalls,
                 seedState, unseededDraw, labels, model, epochIdx, history,
                 dirCreated, registered, store, artifactFile, historyFile,
                 postVars, preVars>>

\* lines 87-88
MkDir(r) ==
  /\ pc[r] = "mkdir"
  /\ \E ok \in BOOLEAN :
       IF ok
         THEN /\ dirCreated' = [dirCreated EXCEPT ![r] = TRUE]
              /\ Advance(r, "mkdir")
         ELSE /\ Raise(r, "mkdir")
              /\ UNCHANGED dirCreated
  /\ UNCHANGED <<nargs, params, cfg, stdout, filesRead, seedCalls,
                 seedState, unseededDraw, labels, model, epochIdx, history,
                 phase, visited, registered, store, artifactFile,
                 historyFile, postVars, preVars>>

\* lines 109-119
SaveModel(r) ==
  /\ pc[r] = "save_model"
  /\ \E ok \in BOOLEAN :
       IF ok
         THEN /\ store' = Append(store, NewVersion(store, r))
              /\ registered' = [registered EXCEPT ![r] = Len(store) + 1]
              /\ Enter(r, "Packaged")
              /\ Advance(r, "save_model")
         ELSE /\ Raise(r, "save_model")
              /\ UNCHANGED <<store, registered, phase, visited>>
  /\ UNCHANGED <<nargs, params, cfg, stdout, filesRead, seedCalls,
                 seedState, unseededDraw, labels, model, epochIdx, history,
                 dirCreated, artifactFile, historyFile, postVars, preVars>>

\* lines 121-125
ExportModel(r) ==
  /\ pc[r] = "export_model"
  /\ \E ok \in BOOLEAN :
       IF ok /\ store # << >>
         THEN /\ artifactFile' = [artifactFile EXCEPT ![r] =
                    Some(ResolveLatest(store))]
              /\ Enter(r, "Exported")
              /\ Advance(r, "export_model")
         ELSE /\ Raise(r, "export_model")
              /\ UNCHANGED <<artifactFile, phase, visited>>
  /\ UNCHANGED <<nargs, params, cfg, stdout, filesRead, seedCalls,
                 seedState, unseededDraw, labels, model, epochIdx, history,
                 dirCreated, registered, store, historyFile, postVars,
                 preVars>>

\* lines 127-128
SaveHistory(r) ==
  /\ pc[r] = "save_history"
  /\ \E ok \in BOOLEAN :
       IF ok
         THEN /\ historyFile' = [historyFile EXCEPT ![r] = Some(history[r])]
              /\ Advance(r, "save_history")
         ELSE /\ Raise(r, "save_history")
              /\ UNCHANGED historyFile
  /\ UNCHANGED <<nargs, params, cfg, stdout, filesRead, seedCalls,
                 seedState, unseededDraw, labels, model, epochIdx, history,
                 phase, visited, dirCreated, registered, store,
                 artifactFile, postVars, preVars>>

\* line 130, then main returns: exit status 0
PrintSaved(r) ==
  /\ pc[r] = "print_saved"
  /\ stdout' = [stdout EXCEPT ![r] = Append(@, SavedText)]
  /\ pc' = [pc EXCEPT ![r] = NextPc("print_saved")]
  /\ events' = [events EXCEPT ![r] = Append(@, "print_saved")]
  /\ exitCode' = [exitCode EXCEPT ![r] = 0]
  /\ UNCHANGED <<traceback, failedAt>>
  /\ UNCHANGED <<nargs, params, cfg, filesRead, seedCalls, seedState,
                 unseededDraw, labels, model, epochIdx, history, phase,
                 visited, dirCreated, registered, store, artifactFile,
                 historyFile, postVars, preVars>>

RunStep(r) ==
  \/ CheckArgs(r)
  \/ LoadParams(r)
  \/ SetSeed(r)
  \/ LoadData(r)
  \/ BuildModel(r)
  \/ FitBegin(r)
  \/ TrainEpoch(r)
  \/ FitEnd(r)
  \/ MkDir(r)
  \/ SaveModel(r)
  \/ ExportModel(r)
  \/ SaveHistory(r)
  \/ PrintSaved(r)

Next == \E r \in Runs : RunStep(r)

\* The inference closures are idle in the pipeline specifications.
IdleClosures ==
  /\ pp_labels = << >>
  /\ pp_logits = << 0 >>
  /\ pp_result = None
  /\ pr_size = << 1, 1 >>
  /\ pr_gray = FALSE
  /\ pr_image = [mode |-> "RGB", width |-> 1, height |-> 1]
  /\ pr_out = None

\* Runs in `on` are about to start with the given arguments and file.
InitRuns(on, n, p) ==
  /\ pc = [r \in Runs |-> IF r \in on THEN "check_args" ELSE "off"]
  /\ nargs = [r \in Runs |-> IF r \in on THEN n ELSE 2]
  /\ params = [r \in Runs |-> IF r \in on THEN p ELSE Some(DefaultParams)]
  /\ cfg = [r \in Runs |-> None]
  /\ stdout = [r \in Runs |-> << >>]
  /\ exitCode = [r \in Runs |-> -1]
  /\ traceback = [r \in Runs |-> FALSE]
  /\ failedAt = [r \in Runs |-> None]
  /\ filesRead = [r \in Runs |-> {}]
  /\ seedCalls = [r \in Runs |-> 0]
  /\ seedState = [r \in Runs |-> None]
  /\ unseededDraw = [r \in Runs |-> FALSE]
  /\ labels = [r \in Runs |-> None]
  /\ model = [r \in Runs |-> None]
  /\ epochIdx = [r \in Runs |-> 0]
  /\ history = [r \in Runs |-> << >>]
  /\ phase = [r \in Runs |-> "Start"]
  /\ visited = [r \in Runs |-> << >>]
  /\ events = [r \in Runs |-> << >>]
  /\ dirCreated = [r \in Runs |-> FALSE]
  /\ registered = [r \in Runs |-> 0]
  /\ store = << >>
  /\ artifactFile = [r \in Runs |-> None]
  /\ historyFile = [r \in Runs |-> None]

\* One run, any argument count, any parameter file.
Init ==
  /\ \E n \in 0..3, p \in ParamFiles : InitRuns({1}, n, p)
  /\ IdleClosures

Spec == Init /\ [][Next]_vars

\* Every run started with two arguments and the default parameter file,
\* all against the same model store.
InitRace ==
  /\ InitRuns(Runs, 2, Some(DefaultParams))
  /\ IdleClosures

SpecRace == InitRace /\ [][Next]_vars

\* ------------------------------------------------------- postprocess
\* postprocess(x) with x of shape (1, n): logits is the row x[0], indices
\* are 1-based here (python index i is i + 1).  A python dict is an
\* insertion-ordered sequence of <<key, value>> pairs with unique keys.
\* A probability is the exact fraction <<numerator, denominator>>; the
\* softmax weights are powers of 2 in place of powers of e, which keeps
\* positivity, normalisation and monotonicity in the logit.
LabelNames == {"star", "planet", "moon"}

RECURSIVE Pow2(_)
Pow2(n) == IF n = 0 THEN 1 ELSE 2 * Pow2(n - 1)

RECURSIVE SumWeights(_, _)
SumWeights(x, i) == IF i = 0 THEN 0 ELSE Pow2(x[i]) + SumWeights(x, i - 1)

\* tf.nn.softmax(x).numpy()[0].tolist()
Softmax(x) == [i \in 1..Len(x) |-> << Pow2(x[i]), SumWeights(x, Len(x)) >>]

\* Faulty arg-max: the index of a smallest entry.
ArgMin(x) == CHOOSE i \in 1..Len(x) : \A j \in 1..Len(x) : x[i] <= x[j]

\* tf.argmax(x, axis=-1).numpy()[0]: the smallest index of a largest entry
ArgMax(x) ==
  CHOOSE i \in 1..Len(x) :
    /\ \A j \in 1..Len(x) : x[j] <= x[i]
    /\ \A j \in 1..(i - 1) : x[j] < x[i]

\* d[k] = v on a python dict
DictPut(d, k, v) ==
  IF \E i \in 1..Len(d) : d[i][1] = k
    THEN [i \in 1..Len(d) |-> IF d[i][1] = k THEN << k, v >> ELSE d[i]]
    ELSE Append(d, << k, v >>)

\* {labels[i]: prob for i, prob in enumerate(probs)} over probs[1..n],
\* for n <= Len(lbls)
RECURSIVE ProbDict(_, _, _)
ProbDict(lbls, probs, n) ==
  IF n = 0 THEN << >>
  ELSE DictPut(ProbDict(lbls, probs, n - 1), lbls[n], probs[n])

PostError == [status |-> "IndexError", prediction |-> "", probabilities |-> << >>]

\* labels[k] raises IndexError for k past the end of the list.
Postprocess(lbls, x) ==
  IF ArgMax(x) > Len(lbls) \/ Len(x) > Len(lbls)
    THEN PostError
    ELSE [status |-> "ok",
          prediction |-> lbls[ArgMax(x)],
          probabilities |-> ProbDict(lbls, Softmax(x), Len(x))]

SeqsUpTo(S, lo, hi) == UNION { [1..n -> S] : n \in lo..hi }

AllRunsOff == InitRuns({}, 2, Some(DefaultParams))

InitPost ==
  /\ AllRunsOff
  /\ pp_labels \in SeqsUpTo(LabelNames, 0, MaxLabels)
  /\ pp_logits \in SeqsUpTo(0..MaxLogit, 1, MaxLogits)
  /\ pp_result = None
  /\ pr_size = << 1, 1 >>
  /\ pr_gray = FALSE
  /\ pr_image = [mode |-> "RGB", width |-> 1, height |-> 1]
  /\ pr_out = None

CallPostprocess ==
  /\ pp_result = None
  /\ pp_result' = Some(Postprocess(pp_labels, pp_logits))
  /\ UNCHANGED <<pp_labels, pp_logits, runVars, preVars>>

SpecPost == InitPost /\ [][CallPostprocess]_vars

\* -------------------------------------------------------- preprocess
\* A PIL image is its mode and its size; a numpy array is its shape.
ImageModes == {"L", "RGB"}

\* x.convert(mode)
Convert(img, mode) == [img EXCEPT !.mode = mode]

\* x.resize(size): PIL takes size as (width, height)
Resize(img, size) == [img EXCEPT !.width = size[1], !.height = size[2]]

\* np.array(x): (height, width) for mode L, (height, width, 3) for RGB;
\* dividing by 255.0 keeps the shape
ToArray(img) ==
  IF img.mode = "L" THEN << img.height, img.width >>
  ELSE << img.height, img.width, 3 >>

\* np.expand_dims(x, axis=0)
ExpandDims(shape) == << 1 >> \o shape

Preprocess(size, gray, img) ==
  ExpandDims(ToArray(Resize(Convert(img, IF gray THEN "L" ELSE "RGB"), size)))

InitPre ==
  /\ AllRunsOff
  /\ pp_labels = << >>
  /\ pp_logits = << 0 >>
  /\ pp_result = None
  /\ pr_size \in (1..MaxDim) \X (1..MaxDim)
  /\ pr_gray \in BOOLEAN
  /\ pr_image \in [mode : ImageModes, width : 1..MaxDim, height : 1..MaxDim]
  /\ pr_out = None

CallPreprocess ==
  /\ pr_out = None
  /\ pr_out' = Some(Preprocess(pr_size, pr_gray, pr_image))
  /\ UNCHANGED <<pr_size, pr_gray, pr_image, runVars, postVars>>

SpecPre == InitPre /\ [][CallPreprocess]_vars

\* ------------------------------------------------------------ properties
Started(r) == pc[r] # "off"

IsPrefix(a, b) == Len(a) <= Len(b) /\ \A i \in 1..Len(a) : a[i] = b[i]

Printed(r, msg) == \E i \in 1..Len(stdout[r]) : stdout[r][i] = msg

Did(r, step) == \E i \in 1..Len(events[r]) : events[r][i] = step

\* C1: a run started with any number of positional arguments other than
\* two prints the usage text and exits with status 1, and never reads the
\* parameter file, loads the dataset, registers a version in the store or
\* creates the model folder, the artifact file or history.npy.
C1_UsageExitTouchesNothing ==
  \A r \in Runs : (Started(r) /\ nargs[r] # 2) =>
    /\ pc[r] \in {"check_args", "exited"}
    /\ pc[r] = "exited" =>
         /\ exitCode[r] = 1
         /\ ~traceback[r]
         /\ stdout[r] = UsageText
    /\ filesRead[r] = {}
    /\ cfg[r] = None
    /\ labels[r] = None
    /\ registered[r] = 0
    /\ \A i \in 1..Len(store) : store[i].owner # r
    /\ ~dirCreated[r]
    /\ artifactFile[r] = None
    /\ historyFile[r] = None

C1_Witness == \E r \in Runs : pc[r] = "exited" /\ nargs[r] = 3

C2_Order ==
  << "Configured", "Built", "Training", "Trained", "Packaged", "Exported" >>

\* C2: the phases a run has entered are always an initial segment of
\* Configured, Built, Training, Trained, Packaged, Exported (none skipped,
\* none re-entered), the current phase is the last one entered, a run that
\* ends successfully has entered all six, and a run that has ended (usage
\* exit, uncaught exception or success) has no further step.
C2_PhasesInOrder ==
  \A r \in Runs :
    /\ IsPrefix(visited[r], C2_Order)
    /\ phase[r] = IF visited[r] = << >> THEN "Start"
                  ELSE visited[r][Len(visited[r])]
    /\ phase[r] = "Training" => epochIdx[r] = Len(history[r])
    /\ pc[r] = "done" => visited[r] = C2_Order /\ exitCode[r] = 0
    /\ pc[r] \in Terminal => ~ENABLED RunStep(r)
    /\ pc[r] = "raised" => failedAt[r] # None /\ exitCode[r] = 1

C2_Witness ==
  \E r \in Runs : pc[r] = "raised" /\ phase[r] = "Training"
                  /\ epochIdx[r] = 1

\* C3: once model.fit has returned for a configured epoch count >= 0, the
\* history holds exactly `epochs` records, record i carrying epoch number
\* i, whatever the losses were (finite or NaN); and history.npy, once
\* written, holds exactly that history.
C3_HistoryComplete ==
  \A r \in Runs :
    /\ (phase[r] \in {"Trained", "Packaged", "Exported"}
        /\ cfg[r][1].epochs >= 0) =>
         /\ Len(history[r]) = cfg[r][1].epochs
         /\ \A i \in 1..Len(history[r]) : history[r][i].epoch = i
    /\ historyFile[r] # None =>
         /\ historyFile[r] = Some(history[r])
         /\ phase[r] \in {"Trained", "Packaged", "Exported"}

C3_Witness ==
  \E r \in Runs :
    /\ historyFile[r] # None
    /\ Len(history[r]) = 2
    /\ history[r][1].loss = "nan"

\* C4 (as claimed): the artifact file a run exported holds the version
\* this same run registered.
C4_ExportsOwnVersion ==
  \A r \in Runs :
    artifactFile[r] # None => artifactFile[r][1].owner = r

\* C4 (amended): the artifact file a run exported holds a version of the
\* store that is never older than the one this run registered; it is the
\* run's own version exactly when it carries the run's version number; and
\* it is the run's own whenever no other run registered a version after
\* this run did (in particular when the run is alone on the store).
C4_ExportsLatestRegistered ==
  \A r \in Runs :
    artifactFile[r] # None =>
      LET v == artifactFile[r][1] IN
        /\ registered[r] # 0
        /\ v.version >= registered[r]
        /\ v.version <= Len(store)
        /\ store[v.version] = v
        /\ (v.owner = r) <=> (v.version = registered[r])
        /\ (\A q \in Runs \ {r} : registered[q] < registered[r])
             => v.owner = r

C4_Witness ==
  \E r, q \in Runs :
    /\ r # q
    /\ artifactFile[r] # None /\ artifactFile[r][1].owner = q
    /\ artifactFile[q] # None /\ artifactFile[q][1].owner = q

\* C5 (as claimed): postprocess never returns a result when the logits
\* vector and the labels list differ in length.
C5_MismatchRaises ==
  (pp_result # None /\ Len(pp_logits) # Len(pp_labels)) =>
    pp_result[1].status # "ok"

C6_Prob(i) == pp_result[1].probabilities[i][2]

\* C6: for a logits vector as long as the labels list, with a unique
\* maximum and pairwise distinct labels, postprocess returns the label at
\* the index of the maximum as prediction, and probabilities has one entry
\* per label, in label order; entry i is the normalised weight of logit i
\* (non-negative, all over one denominator, summing to 1, and no smaller
\* than the entry of any logit that is no larger), so no label carries a
\* larger probability than the predicted one.

C6_PredictionAndProbabilities ==
  LET n == Len(pp_logits)
      uniqueMax == \E i \in 1..n : \A j \in 1..n \ {i} :
                      pp_logits[j] < pp_logits[i]
      distinct == \A i, j \in 1..Len(pp_labels) :
                      pp_labels[i] = pp_labels[j] => i = j
      RECURSIVE SumNum(_)
      SumNum(k) == IF k = 0 THEN 0 ELSE C6_Prob(k)[1] + SumNum(k - 1)
  IN (pp_result # None /\ n = Len(pp_labels) /\ uniqueMax /\ distinct) =>
       LET res == pp_result[1]
           top == CHOOSE i \in 1..n : \A j \in 1..n : pp_logits[j] <= pp_logits[i]
       IN /\ res.status = "ok"
          /\ res.prediction = pp_labels[top]
          /\ Len(res.probabilities) = n
          /\ \A i \in 1..n :
               /\ res.probabilities[i][1] = pp_labels[i]
               /\ C6_Prob(i)[1] >= 0
               /\ C6_Prob(i)[2] = C6_Prob(1)[2]
          /\ SumNum(n) = C6_Prob(1)[2]
          /\ C6_Prob(1)[2] > 0
          /\ \A i, j \in 1..n :
               pp_logits[i] <= pp_logits[j] => C6_Prob(i)[1] <= C6_Prob(j)[1]
          /\ \A i \in 1..n : C6_Prob(i)[1] <= C6_Prob(top)[1]

C6_Witness ==
  /\ pp_result # None
  /\ pp_labels = << "star", "planet", "moon" >>
  /\ pp_logits = << 0, 2, 0 >>
  /\ pp_result[1].prediction = "planet"

\* C7 (as claimed): a run whose parameter file lacks a section or a field,
\* or holds a non-positive lr, epochs, conv_size, dense_size or
\* output_classes, never sets the seed, loads the dataset, builds the model
\* or runs a training step.
C7_InvalidConfigAbortsEarly ==
  \A r \in Runs :
    (Started(r) /\ (~ParamsComplete(params[r]) \/ ParamsNonPositive(params[r])))
      => /\ seedCalls[r] = 0
         /\ labels[r] = None
         /\ model[r] = None
         /\ epochIdx[r] = 0
         /\ phase[r] \in {"Start", "Configured"}

\* C8: set_seed is called at most once per run; a run that has loaded the
\* dataset, built the model or entered training has called it exactly once,
\* with the configured seed, before any of these steps; the initial weights
\* were drawn under that seed; and no pseudo-random draw was made unseeded.
C8_SeededOnceFirst ==
  \A r \in Runs :
    /\ seedCalls[r] <= 1
    /\ Cardinality({i \in 1..Len(events[r]) : events[r][i] = "set_seed"})
         = seedCalls[r]
    /\ ~unseededDraw[r]
    /\ (labels[r] # None \/ model[r] # None \/ epochIdx[r] > 0
        \/ phase[r] \notin {"Start", "Configured"}) =>
         /\ seedCalls[r] = 1
         /\ seedState[r] = << cfg[r][1].seed >>
    /\ model[r] # None => model[r][1].init_seed = << cfg[r][1].seed >>
    /\ \A i \in 1..Len(events[r]) :
         events[r][i] \in {"load_data", "build_model", "fit"} =>
           \E j \in 1..(i - 1) : events[r][j] = "set_seed"

C8_Witness ==
  \E r \in Runs : model[r] # None /\ seedCalls[r] = 1 /\ epochIdx[r] >= 1

C10_OutputSteps ==
  << "mkdir", "save_model", "export_model", "save_history", "print_saved" >>

C10_IsOutputStep(s) == \E i \in 1..Len(C10_OutputSteps) : C10_OutputSteps[i] = s

\* C10: the output steps a run has completed are an initial segment of
\* mkdir, save_model, export_model, save_history, print; history.npy is
\* written only after the artifact file, the confirmation is printed only
\* after both, the artifact file only after the registration and the
\* registration only after the folder; and a run whose export raised has
\* its version registered in the store, no artifact file, no history.npy
\* and no confirmation.
C10_OutputOrder ==
  \A r \in Runs :
    /\ IsPrefix(SelectSeq(events[r], C10_IsOutputStep), C10_OutputSteps)
    /\ dirCreated[r] <=> Did(r, "mkdir")
    /\ registered[r] # 0 <=> Did(r, "save_model")
    /\ artifactFile[r] # None <=> Did(r, "export_model")
    /\ historyFile[r] # None <=> Did(r, "save_history")
    /\ Printed(r, SavedText) <=> Did(r, "print_saved")
    /\ historyFile[r] # None => artifactFile[r] # None
    /\ Printed(r, SavedText) =>
         artifactFile[r] # None /\ historyFile[r] # None
    /\ artifactFile[r] # None => registered[r] # 0
    /\ registered[r] # 0 => dirCreated[r]
    /\ failedAt[r] = << "export_model" >> =>
         /\ registered[r] # 0
         /\ store[registered[r]].owner = r
         /\ artifactFile[r] = None
         /\ historyFile[r] = None
         /\ ~Printed(r, SavedText)
         /\ exitCode[r] = 1

C10_Witness ==
  \E r \in Runs :
    /\ failedAt[r] = << "export_model" >>
    /\ registered[r] # 0
    /\ pc[r] = "raised"

\* C9 (as claimed): the array preprocess returns has the shape
\* (1,) + image_shape, with image_shape as main() computes it for the model.
C9_OutputIsModelInput ==
  pr_out # None => pr_out[1] = << 1 >> \o ImageShape(pr_size, pr_gray)

====
